---- MODULE Spec2Model ----
(***************************************************************************)
(* FastaFlow (src/main.py): validate_sequence, clean_sequence,             *)
(* calculate_statistics and the per-file loop of process_fasta.            *)
(*                                                                         *)
(* A character is a one-element token (a string used as an atom); a        *)
(* sequence of DNA and a record identifier are tuples of characters.       *)
(* Two tokens stand for non-ASCII characters whose uppercase form is two   *)
(* characters long: "sz" is U+00DF (upper "SS") and "st_lig" is U+FB06      *)
(* (upper "ST").                                                           *)
(***************************************************************************)
EXTENDS Integers, Sequences, FiniteSets, TLC

\* ------------------------------------------------------------------ bounds
MaxLen == 4          \* longest sequence given to validate/clean alone
MaxRecords == 3      \* most records in a parsed file
MaxStatRecords == 3  \* most records given to calculate_statistics alone

\* ------------------------------------------------------------ characters
\* Characters given to validate_sequence / clean_sequence on their own.
SeqChars == {"A", "G", "a", "t", "g", "c", "N", "x", "sz", "st_lig"}

\* The record sequences of a parsed file: empty, valid in either case,
\* invalid and emptied by cleaning, invalid and kept by cleaning.
FileSeqs ==
  { <<>>, <<"A">>, <<"t">>, <<"N">>, <<"N", "N">>, <<"A", "N">>, <<"N", "t">>,
    <<"t", "A">> }

\* The record sequences given to calculate_statistics on its own.
StatSeqs == { <<>>, <<"A">>, <<"A", "T">> }

\* Characters of record identifiers, and the identifiers used.
Ids == {<<>>, <<"a">>, <<"b">>, <<"a", "b">>, <<"B">>}
FileIds == {<<"a">>, <<"b">>}

\* Code point of an identifier character (Python compares str by code point).
Ord(c) ==
  CASE c = "B" -> 66
    [] c = "a" -> 97
    [] c = "b" -> 98

\* set("ATGC")
valid_bases == {"A", "T", "G", "C"}

\* str.upper() of one character: a tuple, since the uppercase form of a
\* character can be longer than the character.
UpperChar(c) ==
  CASE c = "a" -> <<"A">>
    [] c = "t" -> <<"T">>
    [] c = "g" -> <<"G">>
    [] c = "c" -> <<"C">>
    [] c = "x" -> <<"X">>
    [] c = "sz" -> <<"S", "S">>
    [] c = "st_lig" -> <<"S", "T">>
    [] OTHER -> <<c>>

\* str(sequence).upper()
RECURSIVE Upper(_)
Upper(s) == IF s = <<>> THEN <<>> ELSE UpperChar(Head(s)) \o Upper(Tail(s))

\* The loop of validate_sequence over sequence_upper: the first base outside
\* valid_bases returns False, the end of the loop returns True.
RECURSIVE ValidateLoop(_)
ValidateLoop(u) ==
  IF u = <<>> THEN TRUE
  ELSE IF Head(u) \notin valid_bases THEN FALSE
  ELSE ValidateLoop(Tail(u))

\* validate_sequence without the .upper() call.
validate_sequence_noupper(sequence) == ValidateLoop(sequence)

validate_sequence(sequence) == ValidateLoop(Upper(sequence))

\* A cleaner that puts "N" where it should drop the character.
RECURSIVE CleanLoopReplace(_)
CleanLoopReplace(u) ==
  IF u = <<>> THEN <<>>
  ELSE IF Head(u) \in valid_bases THEN <<Head(u)>> \o CleanLoopReplace(Tail(u))
  ELSE <<"N">> \o CleanLoopReplace(Tail(u))

\* The list comprehension of clean_sequence, joined.
RECURSIVE CleanLoop(_)
CleanLoop(u) ==
  IF u = <<>> THEN <<>>
  ELSE IF Head(u) \in valid_bases THEN <<Head(u)>> \o CleanLoop(Tail(u))
  ELSE CleanLoop(Tail(u))

\* clean_sequence without the .upper() call.
clean_sequence_noupper(sequence) == CleanLoop(sequence)

clean_sequence(sequence) == CleanLoop(Upper(sequence))

\* All tuples over S of length at most n.
SeqsUpTo(S, n) == UNION {[1..k -> S] : k \in 0..n}

\* ------------------------------------------------------------- statistics
\* A str "<" that takes a proper prefix for the greater string.
RECURSIVE StrLessPrefixGreater(_, _)
StrLessPrefixGreater(a, b) ==
  IF a = <<>> THEN FALSE
  ELSE IF b = <<>> THEN TRUE
  ELSE IF Ord(Head(a)) # Ord(Head(b)) THEN Ord(Head(a)) < Ord(Head(b))
  ELSE StrLessPrefixGreater(Tail(a), Tail(b))

\* Python's str "<": by code point, a proper prefix is smaller.
RECURSIVE StrLess(_, _)
StrLess(a, b) ==
  IF b = <<>> THEN FALSE
  ELSE IF a = <<>> THEN TRUE
  ELSE IF Ord(Head(a)) # Ord(Head(b)) THEN Ord(Head(a)) < Ord(Head(b))
  ELSE StrLess(Tail(a), Tail(b))

\* A comparison by length alone (min/max with key=len): on a tie the item
\* met first is kept.
TupleLessLenOnly(p, q) == p[1] < q[1]

\* Python's tuple "<" on (len, id): the first differing element decides.
TupleLess(p, q) ==
  IF p[1] # q[1] THEN p[1] < q[1]
  ELSE IF p[2] # q[2] THEN StrLess(p[2], q[2])
  ELSE FALSE

\* The generator ((len(r.seq), r.id) for r in records).
LenIdPairs(recs) == [k \in 1..Len(recs) |-> <<Len(recs[k].seq), recs[k].id>>]

\* min(iterable): keeps the item held unless a later one is smaller.
RECURSIVE MinLoop(_, _)
MinLoop(items, best) ==
  IF items = <<>> THEN best
  ELSE IF TupleLess(Head(items), best) THEN MinLoop(Tail(items), Head(items))
  ELSE MinLoop(Tail(items), best)

\* max(iterable): keeps the item held unless a later one is greater.
RECURSIVE MaxLoop(_, _)
MaxLoop(items, best) ==
  IF items = <<>> THEN best
  ELSE IF TupleLess(best, Head(items)) THEN MaxLoop(Tail(items), Head(items))
  ELSE MaxLoop(Tail(items), best)

\* sum(len(r.seq) for r in records)
RECURSIVE SumLen(_)
SumLen(recs) == IF recs = <<>> THEN 0 ELSE Len(Head(recs).seq) + SumLen(Tail(recs))

\* A sentinel that names no length.
NoLengthSentinel == <<-1, <<>>>>

\* The sentinel (0, "") of an empty collection.
EmptySentinel == <<0, <<>>>>

\* calculate_statistics(records). avg_length, a float in the code, is kept as
\* the exact quotient <<numerator, denominator>>; the 0 of an empty
\* collection is <<0, 1>>.
calculate_statistics(recs) ==
  [ total_sequences |-> Len(recs),
    total_bases |-> SumLen(recs),
    avg_length |-> IF recs # <<>> THEN <<SumLen(recs), Len(recs)>> ELSE <<0, 1>>,
    shortest |-> IF recs # <<>>
                 THEN MinLoop(Tail(LenIdPairs(recs)), Head(LenIdPairs(recs)))
                 ELSE EmptySentinel,
    longest |-> IF recs # <<>>
                THEN MaxLoop(Tail(LenIdPairs(recs)), Head(LenIdPairs(recs)))
                ELSE EmptySentinel ]

\* ------------------------------------------------------------------ state
VARIABLES
  sequence,       \* the argument of validate_sequence / clean_sequence
  is_valid,       \* <<validate_sequence(sequence)>>, <<>> before the call
  cleaned,        \* <<clean_sequence(sequence)>>, <<>> before the call
  cleaned_twice,  \* <<clean_sequence(clean_sequence(sequence))>>
  cleaned_valid,  \* <<validate_sequence(clean_sequence(sequence))>>
  stat_input,     \* the argument of calculate_statistics called on its own
  stat_result,    \* <<its result>>, <<>> before the call
  file_exists,    \* os.path.exists(input_file)
  parsed,         \* the records as SeqIO.parse returned them (never changed)
  records,        \* the record objects of process_fasta, changed in place
  pos,            \* index of the record the for loop takes next
  valid_records,  \* list of references (indices) to record objects
  invalid_count,
  report,         \* <<[valid, invalid]>>: the two counts printed
  stats,          \* <<calculate_statistics(valid_records)>> when it is called
  output_file,    \* <<what SeqIO.write wrote>>, <<>> before
  returned,       \* <<the return value of process_fasta>>, <<>> before
  pc

seqVars == <<sequence, is_valid, cleaned, cleaned_twice, cleaned_valid>>
statVars == <<stat_input, stat_result>>
fileVars == <<file_exists, parsed, records, pos, valid_records, invalid_count,
              report, stats, output_file, returned, pc>>
vars == <<seqVars, statVars, fileVars>>

\* The record objects a list of references points to.
Deref(refs) == [k \in 1..Len(refs) |-> records[refs[k]]]

SeqIdle ==
  /\ sequence = <<>> /\ is_valid = <<>> /\ cleaned = <<>>
  /\ cleaned_twice = <<>> /\ cleaned_valid = <<>>

StatIdle == stat_input = <<>> /\ stat_result = <<>>

FileIdle ==
  /\ file_exists = FALSE /\ parsed = <<>> /\ records = <<>> /\ pos = 1
  /\ valid_records = <<>> /\ invalid_count = 0 /\ report = <<>>
  /\ stats = <<>> /\ output_file = <<>> /\ returned = <<>> /\ pc = "start"

\* --------------------------------------------------- process_fasta (Spec)
FileRecords == [id : FileIds, seq : FileSeqs]

Init ==
  /\ SeqIdle /\ StatIdle
  /\ file_exists \in BOOLEAN
  /\ parsed = <<>> /\ records = <<>> /\ pos = 1
  /\ valid_records = <<>> /\ invalid_count = 0 /\ report = <<>>
  /\ stats = <<>> /\ output_file = <<>> /\ returned = <<>> /\ pc = "start"

\* if not os.path.exists(input_file): return []
FileNotFound ==
  /\ pc = "start" /\ ~file_exists
  /\ returned' = << <<>> >>
  /\ pc' = "done"
  /\ UNCHANGED <<seqVars, statVars, file_exists, parsed, records, pos,
                 valid_records, invalid_count, report, stats, output_file>>

\* records = list(SeqIO.parse(input_file, "fasta")); valid_records = [];
\* invalid_count = 0
Parse ==
  /\ pc = "start" /\ file_exists
  /\ \E recs \in SeqsUpTo(FileRecords, MaxRecords) :
       /\ parsed' = recs
       /\ records' = recs
  /\ valid_records' = <<>>
  /\ invalid_count' = 0
  /\ pos' = 1
  /\ pc' = "loop"
  /\ UNCHANGED <<seqVars, statVars, file_exists, report, stats, output_file,
                 returned>>

\* The iteration without the "if len(record.seq) > 0" test.
IterateKeepEmpty ==
  /\ pc = "loop" /\ pos <= Len(records)
  /\ LET record == records[pos] IN
       IF validate_sequence(record.seq)
       THEN /\ valid_records' = Append(valid_records, pos)
            /\ UNCHANGED <<records, invalid_count>>
       ELSE /\ invalid_count' = invalid_count + 1
            /\ records' = [records EXCEPT ![pos].seq = clean_sequence(record.seq)]
            /\ valid_records' = Append(valid_records, pos)
  /\ pos' = pos + 1
  /\ UNCHANGED <<seqVars, statVars, file_exists, parsed, report, stats,
                 output_file, returned, pc>>

\* The iteration that cleans every record, valid or not.
IterateCleanAll ==
  /\ pc = "loop" /\ pos <= Len(records)
  /\ LET record == records[pos]
         seq == clean_sequence(record.seq) IN
       /\ invalid_count' = IF validate_sequence(record.seq)
                           THEN invalid_count ELSE invalid_count + 1
       /\ records' = [records EXCEPT ![pos].seq = seq]
       /\ valid_records' = IF Len(seq) > 0 \/ validate_sequence(record.seq)
                           THEN Append(valid_records, pos)
                           ELSE valid_records
  /\ pos' = pos + 1
  /\ UNCHANGED <<seqVars, statVars, file_exists, parsed, report, stats,
                 output_file, returned, pc>>

\* One iteration of "for record in records".
Iterate ==
  /\ pc = "loop" /\ pos <= Len(records)
  /\ LET record == records[pos] IN
       IF validate_sequence(record.seq)
       THEN /\ valid_records' = Append(valid_records, pos)
            /\ UNCHANGED <<records, invalid_count>>
       ELSE LET seq == clean_sequence(record.seq) IN
            /\ invalid_count' = invalid_count + 1
            /\ records' = [records EXCEPT ![pos].seq = seq]
            /\ valid_records' = IF Len(seq) > 0
                                THEN Append(valid_records, pos)
                                ELSE valid_records
  /\ pos' = pos + 1
  /\ UNCHANGED <<seqVars, statVars, file_exists, parsed, report, stats,
                 output_file, returned, pc>>

\* After the loop: the two counts are printed, the statistics are computed
\* when valid_records is not empty, the file is written, the list returned.
Finish ==
  /\ pc = "loop" /\ pos > Len(records)
  /\ report' = << [valid |-> Len(valid_records), invalid |-> invalid_count] >>
  /\ stats' = IF valid_records # <<>>
              THEN << calculate_statistics(Deref(valid_records)) >>
              ELSE <<>>
  /\ output_file' = << Deref(valid_records) >>
  /\ returned' = << valid_records >>
  /\ pc' = "done"
  /\ UNCHANGED <<seqVars, statVars, file_exists, parsed, records, pos,
                 valid_records, invalid_count>>

Next == FileNotFound \/ Parse \/ Iterate \/ Finish

Spec == Init /\ [][Next]_vars

\* ------------------------------- validate / clean on their own (SpecSeq)
InitSeq ==
  /\ sequence \in SeqsUpTo(SeqChars, MaxLen)
  /\ is_valid = <<>> /\ cleaned = <<>>
  /\ cleaned_twice = <<>> /\ cleaned_valid = <<>>
  /\ StatIdle /\ FileIdle

Validate ==
  /\ is_valid = <<>>
  /\ is_valid' = << validate_sequence(sequence) >>
  /\ UNCHANGED <<sequence, cleaned, cleaned_twice, cleaned_valid, statVars,
                 fileVars>>

Clean ==
  /\ cleaned = <<>>
  /\ cleaned' = << clean_sequence(sequence) >>
  /\ UNCHANGED <<sequence, is_valid, cleaned_twice, cleaned_valid, statVars,
                 fileVars>>

CleanAgain ==
  /\ cleaned # <<>> /\ cleaned_twice = <<>>
  /\ cleaned_twice' = << clean_sequence(cleaned[1]) >>
  /\ UNCHANGED <<sequence, is_valid, cleaned, cleaned_valid, statVars,
                 fileVars>>

ValidateCleaned ==
  /\ cleaned # <<>> /\ cleaned_valid = <<>>
  /\ cleaned_valid' = << validate_sequence(cleaned[1]) >>
  /\ UNCHANGED <<sequence, is_valid, cleaned, cleaned_twice, statVars,
                 fileVars>>

NextSeq == Validate \/ Clean \/ CleanAgain \/ ValidateCleaned

SpecSeq == InitSeq /\ [][NextSeq]_vars

\* ------------------------- calculate_statistics on its own (SpecStats)
StatRecords == [id : Ids, seq : StatSeqs]

InitStats ==
  /\ stat_input \in SeqsUpTo(StatRecords, MaxStatRecords)
  /\ stat_result = <<>>
  /\ SeqIdle /\ FileIdle

Summarize ==
  /\ stat_result = <<>>
  /\ stat_result' = << calculate_statistics(stat_input) >>
  /\ UNCHANGED <<stat_input, seqVars, fileVars>>

NextStats == Summarize

SpecStats == InitStats /\ [][NextStats]_vars

\* ================================================================ claims
Alphabet == {"A", "T", "G", "C"}

\* The record objects process_fasta has accepted so far.
Accepted == Deref(valid_records)

\* The indices the references of valid_records point to.
AcceptedRefs == {valid_records[k] : k \in 1..Len(valid_records)}

FileDone == pc = "done" /\ file_exists

\* C1: every record of the accepted collection that process_fasta returns has
\* a sequence of characters of {A,T,G,C} only, and of non-zero length.
C1_AcceptedOverAlphabetNonEmpty ==
  FileDone =>
    \A k \in 1..Len(output_file[1]) :
      LET seq == output_file[1][k].seq IN
        /\ Len(seq) > 0
        /\ \A j \in 1..Len(seq) : seq[j] \in Alphabet

C3_Counters ==
  FileDone =>
    /\ report[1].valid =
         Cardinality({i \in 1..Len(parsed) : validate_sequence(parsed[i].seq)})
    /\ report[1].invalid =
         Cardinality({i \in 1..Len(parsed) : ~validate_sequence(parsed[i].seq)})
    /\ report[1].valid + report[1].invalid = Len(parsed)

\* C4: validate_sequence(S) is true iff every character of S, uppercased, is
\* one of A, T, G, C; so it is true of the empty sequence.
C4_ValidatorIff ==
  is_valid # <<>> =>
    /\ is_valid[1] \in BOOLEAN
    /\ is_valid[1] = (\A i \in 1..Len(sequence) :
                        \A j \in 1..Len(UpperChar(sequence[i])) :
                          UpperChar(sequence[i])[j] \in Alphabet)
    /\ (sequence = <<>> => is_valid[1])

\* C4 witness: the Validator has accepted the lowercase sequence "atgc".
C4_Witness == sequence = <<"a", "t", "g", "c">> /\ is_valid = <<TRUE>>

\* C5: clean_sequence(clean_sequence(S)) = clean_sequence(S), and
\* validate_sequence(clean_sequence(S)) is true.
C5_CleanerIdempotentValid ==
  /\ cleaned_twice # <<>> => cleaned_twice[1] = cleaned[1]
  /\ cleaned_valid # <<>> => cleaned_valid[1] = TRUE

\* C5 witness: a sequence with characters to drop and to uppercase has been
\* cleaned, cleaned again and validated.
C5_Witness ==
  /\ sequence = <<"a", "N", "sz", "G">>
  /\ cleaned = << <<"A", "G">> >>
  /\ cleaned_twice # <<>>
  /\ cleaned_valid # <<>>

InAlphabet(c) == c \in Alphabet

\* C6: clean_sequence(S) is the uppercased characters of S that are in
\* {A,T,G,C}, in their order, nothing put in place of the others; it is never
\* longer than S, and the empty sequence cleans to the empty sequence.
C6_CleanerExact ==
  cleaned # <<>> =>
    /\ cleaned[1] = SelectSeq(Upper(sequence), InAlphabet)
    /\ Len(cleaned[1]) <= Len(sequence)
    /\ (sequence = <<>> => cleaned[1] = <<>>)

\* C6 witness: a ligature whose uppercase form is "ST", then "atG", has been
\* cleaned to "TATG", a result as long as the input.
C6_Witness ==
  /\ sequence = <<"st_lig", "a", "t", "G">>
  /\ cleaned = << <<"T", "A", "T", "G">> >>

\* Lexicographic order of identifiers by code point, and of (length, id).
IdLeq(a, b) ==
  \/ a = b
  \/ \E k \in 1..(Len(a) + 1) :
       /\ k <= Len(b)
       /\ \A j \in 1..(k - 1) : a[j] = b[j]
       /\ (k = Len(a) + 1 \/ Ord(a[k]) < Ord(b[k]))

PairLeq(p, q) == p[1] < q[1] \/ (p[1] = q[1] /\ IdLeq(p[2], q[2]))

StatPairs == {<<Len(stat_input[k].seq), stat_input[k].id>> : k \in 1..Len(stat_input)}

StatCalled == stat_result # <<>> /\ stat_input # <<>>

\* C7: on a non-empty collection, total_sequences is the number of records,
\* total_bases the sum of the lengths, shortest the minimum and longest the
\* maximum of the (length, identifier) pairs in lexicographic order.
C7_Statistics ==
  StatCalled =>
    LET s == stat_result[1] IN
      /\ s.total_sequences = Len(stat_input)
      /\ s.total_bases =
           Cardinality(UNION {{<<k, j>> : j \in 1..Len(stat_input[k].seq)} :
                                k \in 1..Len(stat_input)})
      /\ s.shortest \in StatPairs
      /\ \A q \in StatPairs : PairLeq(s.shortest, q)
      /\ s.longest \in StatPairs
      /\ \A q \in StatPairs : PairLeq(q, s.longest)

\* C7 witness: three records of one length; the smallest identifier is
\* reported shortest and the largest longest.
C7_Witness ==
  /\ StatCalled
  /\ Len(stat_input) = 3
  /\ \A k \in 1..3 : Len(stat_input[k].seq) = 1
  /\ stat_input[1].id = <<"a", "b">>
  /\ stat_input[2].id = <<"b">>
  /\ stat_input[3].id = <<"B">>
  /\ stat_result[1].shortest = <<1, <<"B">>>>
  /\ stat_result[1].longest = <<1, <<"b">>>>

MinStatLen == CHOOSE n \in {p[1] : p \in StatPairs} : \A p \in StatPairs : n <= p[1]
MaxStatLenSeen == CHOOSE n \in {p[1] : p \in StatPairs} : \A p \in StatPairs : p[1] <= n
FirstOfLen(n) ==
  CHOOSE k \in 1..Len(stat_input) :
    /\ Len(stat_input[k].seq) = n
    /\ \A j \in 1..(k - 1) : Len(stat_input[j].seq) # n

\* C8 as stated: of the records tied on length, the one met first is reported.
C8_FirstEncountered ==
  StatCalled =>
    /\ stat_result[1].shortest[2] = stat_input[FirstOfLen(MinStatLen)].id
    /\ stat_result[1].longest[2] = stat_input[FirstOfLen(MaxStatLenSeen)].id

\* The collection in another order.
Reordered(f) == [k \in 1..Len(stat_input) |-> stat_input[f[k]]]

\* C8 as amended: of the records tied on length for shortest the one with the
\* smallest identifier is reported, for longest the one with the largest,
\* whatever the order of the collection.
C8_TieByIdentifier ==
  StatCalled =>
    LET s == stat_result[1] IN
      /\ s.shortest[1] = MinStatLen
      /\ s.longest[1] = MaxStatLenSeen
      /\ \A k \in 1..Len(stat_input) :
           /\ Len(stat_input[k].seq) = MinStatLen => IdLeq(s.shortest[2], stat_input[k].id)
           /\ Len(stat_input[k].seq) = MaxStatLenSeen => IdLeq(stat_input[k].id, s.longest[2])
      /\ \A f \in Permutations(1..Len(stat_input)) :
           /\ calculate_statistics(Reordered(f)).shortest = s.shortest
           /\ calculate_statistics(Reordered(f)).longest = s.longest

\* C8 witness: two records tie for shortest and for longest, and in both
\* cases the one reported is not the one met first.
C8_Witness ==
  /\ StatCalled
  /\ Len(stat_input) = 3
  /\ stat_input[1] = [id |-> <<"b">>, seq |-> <<>>]
  /\ stat_input[2] = [id |-> <<"a">>, seq |-> <<>>]
  /\ stat_input[3] = [id |-> <<"a">>, seq |-> <<"A">>]
  /\ stat_result[1].shortest = <<0, <<"a">>>>

\* C9: on an empty collection calculate_statistics returns total_sequences 0,
\* total_bases 0, avg_length 0, shortest (0, "") and longest (0, "").
C9_EmptySummary ==
  (stat_result # <<>> /\ stat_input = <<>>) =>
    /\ stat_result[1].total_sequences = 0
    /\ stat_result[1].total_bases = 0
    /\ stat_result[1].avg_length[1] = 0
    /\ stat_result[1].shortest = <<0, <<>>>>
    /\ stat_result[1].longest = <<0, <<>>>>

\* C9 witness: calculate_statistics has returned on the empty collection.
C9_Witness == stat_input = <<>> /\ stat_result # <<>>

\* C10: process_fasta never changes an identifier, changes a sequence only
\* of a record the Validator rejected, and every record valid on first pass
\* is in the accepted collection with its original sequence, case included.
C10_Frame ==
  /\ Len(records) = Len(parsed)
  /\ \A i \in 1..Len(parsed) :
       /\ records[i].id = parsed[i].id
       /\ records[i].seq # parsed[i].seq => ~validate_sequence(parsed[i].seq)
       /\ (i < pos /\ validate_sequence(parsed[i].seq)) =>
            /\ i \in AcceptedRefs
            /\ records[i] = parsed[i]
  /\ FileDone =>
       \A k \in 1..Len(returned[1]) :
         validate_sequence(parsed[returned[1][k]].seq) =>
           output_file[1][k] = parsed[returned[1][k]]

\* C10 witness: a lowercase valid record has been written out as it came,
\* after a record that was rewritten.
C10_Witness ==
  /\ FileDone
  /\ Len(parsed) = 2
  /\ parsed[1].seq = <<"A", "N">>
  /\ parsed[2].seq = <<"t", "A">>
  /\ Len(output_file[1]) = 2
  /\ output_file[1][1].seq = <<"A">>
  /\ output_file[1][2] = parsed[2]

====
